---- MODULE Spec2Model ----
(***************************************************************************)
(* The regexp-to-arkregex codemod.                                         *)
(*                                                                         *)
(* Spec: scripts/codemod.ts, one run of transform over one source file,    *)
(* and further runs over its own output.                                   *)
(* ManifestSpec: scripts/add-dependency.ts, one run of its transform over  *)
(* one file and the directory tree around it.                              *)
(* InstallerSpec: scripts/add-dependency.sh, main from its argument to     *)
(* the install decision, with the upward walk of find_monorepo_root.       *)
(*                                                                         *)
(* Source text is a sequence of tokens; a position of the text is a        *)
(* 0-based index into that sequence, as a character index is in the code.  *)
(* Every token is a record of one shape:                                   *)
(*   t    the lexical class: "nl" line break, "kw" keyword or punctuation, *)
(*        "id" identifier, "str" string literal, "tmpl" template literal,  *)
(*        "tmplline" a line inside a template literal, "cmt" comment,      *)
(*        "imp" a whole import statement, "impopen" and "impclose" the     *)
(*        first and last line of an import statement written over two      *)
(*        lines, "stmt" a whole statement without call sites               *)
(*   v    the text of the token                                            *)
(*   def  for an identifier, the kind of record definition() returns       *)
(*        ("" none, "local", "import", "external")                         *)
(*   decl for a local identifier, how it is declared ("const", "let",      *)
(*        "var", "param")                                                  *)
(*   init for a declared variable, the tokens of its initializer           *)
(* White space other than line breaks is not represented.                  *)
(***************************************************************************)
EXTENDS Integers, Sequences, FiniteSets, TLC

VARIABLES
    sourceText,      \* the text of the file given to this run of transform
    pc,              \* position in transform: "plan", "sites", "commit", "import", "done"
    functionName,    \* the binding name chosen for the replacements
    needsNewImport,  \* whether an import line is to be inserted
    sites,           \* the new RegExp(...) expressions found, in document order
    next,            \* index in sites of the next expression the loop handles
    edits,           \* the edits pushed so far, in push order
    newSource,       \* the text after commitEdits, then after the import insertion
    result,          \* "none" while running, "null" or "text" once returned
    run,             \* 1 for the run over the input file, 2.. for runs over own output
    \* add-dependency.ts
    mpc,             \* position in its transform: "parse", "check", "scan", "write", "done"
    packageJsonPath, \* root.filename()
    source,          \* the text of the file: whether it parses, and to what value
    packageJson,     \* the parsed value, then the edited one
    packageDir,      \* the directory tree the scan reads
    hasImport,       \* what checkForPackageImports returned
    output,          \* "none" while running, then "null", "text" or "throws"
    \* add-dependency.sh
    ipc,             \* position in main: "start", "loop", "found", "decide", "decided"
    arguments,       \* the arguments of the script
    markers,         \* the directories that carry a workspace marker
    target_dir,      \* of main
    sh_dir,          \* the shell variable dir, shared by all the functions
    current,         \* of find_monorepo_root
    monorepo_root,   \* what find_monorepo_root printed
    decision         \* the branch main takes: "monorepo" or "single"

vars == <<sourceText, pc, functionName, needsNewImport, sites, next, edits,
          newSource, result, run>>

manifestVars == <<mpc, packageJsonPath, source, packageJson, packageDir, hasImport, output>>

installerVars == <<ipc, arguments, markers, target_dir, sh_dir, current, monorepo_root, decision>>

\* A JSON value: k is its type, s the text of a primitive, e the entries
\* <<key, value>> of an object or an array in enumeration order. The value
\* undefined stands for an absent property.
JVal(k, s, e) == [k |-> k, s |-> s, e |-> e]
Undefined == JVal("undefined", "", <<>>)

\* The variables of add-dependency.ts while codemod.ts runs, and the
\* variables of codemod.ts while add-dependency.ts runs.
ManifestOff ==
    /\ mpc = "off" /\ packageJsonPath = "" /\ source = Undefined /\ packageJson = Undefined
    /\ packageDir = <<>> /\ hasImport = FALSE /\ output = "none"

\* The variables of add-dependency.sh while another program runs.
InstallerOff ==
    /\ ipc = "off" /\ arguments = <<>> /\ markers = {} /\ target_dir = "" /\ sh_dir = ""
    /\ current = "" /\ monorepo_root = "" /\ decision = ""

CodemodOff ==
    /\ sourceText = <<>> /\ pc = "off" /\ functionName = "" /\ needsNewImport = FALSE
    /\ sites = <<>> /\ next = 1 /\ edits = <<>> /\ newSource = <<>> /\ result = "none"
    /\ run = 1

---------------------------------------------------------------------------
(* Tokens *)

Tok(t, v) == [t |-> t, v |-> v, def |-> "", decl |-> "", init |-> <<>>]

Ident(name, def, decl, init) ==
    [t |-> "id", v |-> name, def |-> def, decl |-> decl, init |-> init]

NL == Tok("nl", "\n")
Kw(v) == Tok("kw", v)
Str(v) == Tok("str", v)
Tmpl(v) == Tok("tmpl", v)

\* The texts of the model's tokens that contain the marker the comment
\* check looks for with includes("TODO(arkregex)").
TodoCommentText ==
    "// TODO(arkregex): pattern/flags not statically known; typing may degrade. Consider regex.as<...>(...)"

MarkerTexts == {TodoCommentText, "// TODO(arkregex) checked by hand", "str-TODO(arkregex)"}

IncludesMarker(tok) == tok.v \in MarkerTexts

\* trim().startsWith("//") of a line: its first token is a line comment.
StartsLineComment(line) == Len(line) > 0 /\ line[1].t = "cmt"

\* A template literal's template_substitution children.
HasSubstitution(tok) == tok.v \in {"tpl-u", "tpl-a-u-b"}

---------------------------------------------------------------------------
(* Text primitives, with the 0-based positions of the code *)

\* sourceText[p]
CharAt(s, p) == s[p + 1]

\* s.substring(a, b)
Substring(s, a, b) == SubSeq(s, a + 1, b)

Min(S) == CHOOSE x \in S : \A y \in S : x <= y
Max(S) == CHOOSE x \in S : \A y \in S : x >= y

\* s.indexOf("\n", from), -1 when there is none
IndexOfNewline(s, from) ==
    LET hits == {p \in from..(Len(s) - 1) : CharAt(s, p) = NL}
    IN  IF hits = {} THEN -1 ELSE Min(hits)

\* Two runs of tokens spell the same text, whatever the parser made of them.
SameText(a, b) == Len(a) = Len(b) /\ \A k \in 1..Len(a) : a[k].v = b[k].v

\* s.lastIndexOf(t) for a non-empty text t, -1 when t does not occur
LastIndexOf(s, t) ==
    LET hits == {p \in 0..(Len(s) - Len(t)) : SameText(Substring(s, p, p + Len(t)), t)}
    IN  IF hits = {} THEN -1 ELSE Max(hits)

\* Nesting depth of parentheses before the 1-based index i of s.
DepthBefore(s, i) ==
    Cardinality({j \in 1..(i - 1) : s[j] = Kw("(")})
      - Cardinality({j \in 1..(i - 1) : s[j] = Kw(")")})

\* The 1-based index of the ")" that closes the "(" at index i, 0 if none.
MatchingClose(s, i) ==
    LET hits == {j \in (i + 1)..Len(s) :
                    s[j] = Kw(")") /\ DepthBefore(s, j + 1) = DepthBefore(s, i)}
    IN  IF hits = {} THEN 0 ELSE Min(hits)

\* The elements of a finite set of integers in ascending order.
SortedSeq(S) ==
    [k \in 1..Cardinality(S) |-> CHOOSE x \in S : Cardinality({y \in S : y < x}) = k - 1]

---------------------------------------------------------------------------
(* Syntax: what the parser makes of a run of tokens *)

\* The 1-based indices of the "+" operators of e outside any parentheses.
TopLevelPlus(e) == {i \in 1..Len(e) : e[i] = Kw("+") /\ DepthBefore(e, i) = 0}

\* node.kind() of the expression spelled by the tokens e.
NodeKind(e) ==
    IF Len(e) = 1
    THEN CASE e[1].t = "str"  -> "string"
           [] e[1].t = "tmpl" -> "template_string"
           [] e[1].t = "id"   -> "identifier"
           [] OTHER           -> "other"
    ELSE IF TopLevelPlus(e) # {} /\ Max(TopLevelPlus(e)) \notin {1, Len(e)}
         THEN "binary_expression"
    ELSE IF e # <<>> /\ e[1] = Kw("(") /\ MatchingClose(e, 1) = Len(e) /\ Len(e) > 2
         THEN "parenthesized_expression"
    ELSE "other"

\* The operands of a binary "+" expression: "+" associates to the left.
LeftOperand(e) == SubSeq(e, 1, Max(TopLevelPlus(e)) - 1)
RightOperand(e) == SubSeq(e, Max(TopLevelPlus(e)) + 1, Len(e))

\* node.field("expression") of a parenthesized expression.
InnerExpression(e) == SubSeq(e, 2, Len(e) - 1)

---------------------------------------------------------------------------
(* The predicates of codemod.ts *)

TRANSFORM_CALL_FORM == FALSE

\* isGlobalRegExp of the identifier at position p of s. The parent of an
\* identifier is a member expression when it is the property after a ".".
isGlobalRegExp(s, p) ==
    LET identifier == CharAt(s, p)
        parentIsMember == p > 0 /\ CharAt(s, p - 1) = Kw(".")
    IN  IF parentIsMember THEN FALSE
        ELSE IF identifier.def = "local" THEN FALSE
        ELSE IF identifier.def = "import" THEN FALSE
        ELSE TRUE

\* The variable_declarator ancestor of a local definition, its value and
\* the kind of its variable_declaration.
HasDeclarator(id) == id.decl \in {"const", "let", "var"}

\* Mutant: the kind of the variable_declaration is not looked at.
IsAnyDeclaration(id) == id.decl \in {"const", "let", "var"}

\* The kind field of the variable_declaration is "const".
IsConstDeclaration(id) == id.decl = "const"

\* The value of the declarator is a string or a template string.
IsLiteralValue(value) == NodeKind(value) \in {"string", "template_string"}

RECURSIVE isStaticallyKnown(_)
isStaticallyKnown(node) ==
    LET kind == NodeKind(node)
    IN
    IF node = <<>> THEN FALSE
    ELSE IF kind = "string" THEN TRUE
    ELSE IF kind = "template_string" THEN ~HasSubstitution(node[1])
    ELSE IF kind = "parenthesized_expression"
         THEN isStaticallyKnown(InnerExpression(node))
    ELSE IF kind = "identifier"
         THEN LET id == node[1]
                  value == id.init
              IN  /\ id.def = "local"
                  /\ HasDeclarator(id)
                  /\ value # <<>>
                  /\ IsLiteralValue(value)
                  /\ IsConstDeclaration(id)
                  /\ isStaticallyKnown(value)
    ELSE IF kind = "binary_expression"
         THEN isStaticallyKnown(LeftOperand(node)) /\ isStaticallyKnown(RightOperand(node))
    ELSE FALSE

\* The children of an arguments node that are neither punctuation nor
\* comments, for the arguments node whose "(" is at 1-based index open of s:
\* the runs of tokens between its top-level commas, comments removed.
EffectiveArguments(s, open) ==
    LET inner  == SubSeq(s, open + 1, MatchingClose(s, open) - 1)
        commas == SortedSeq({i \in 1..Len(inner) :
                                inner[i] = Kw(",") /\ DepthBefore(inner, i) = 0})
        piece(k) == SubSeq(inner,
                           IF k = 1 THEN 1 ELSE commas[k - 1] + 1,
                           IF k = Len(commas) + 1 THEN Len(inner) ELSE commas[k] - 1)
        pieces == [k \in 1..(Len(commas) + 1) |->
                      SelectSeq(piece(k), LAMBDA tok : tok.t # "cmt")]
    IN  SelectSeq(pieces, LAMBDA a : a # <<>>)

\* getArguments: the first and the second effective argument, <<>> for null.
getArguments(s, open) ==
    LET args == EffectiveArguments(s, open)
    IN  [first  |-> IF Len(args) >= 1 THEN args[1] ELSE <<>>,
         second |-> IF Len(args) >= 2 THEN args[2] ELSE <<>>]

---------------------------------------------------------------------------
(* Import statements and statements that bind names *)

ImportRegexText == "import { regex } from \"arkregex\";"
ImportRegexAsArkregexText == "import { regex as arkregex } from \"arkregex\";"
ImportRegexAsRxText == "import { regex as rx } from \"arkregex\";"
ImportRegexFromOtherText == "import { regex } from \"other\";"
ImportOtherText == "import { x } from \"y\";"

\* An import statement written over two lines: its first line and its last.
ImportOpenText == "import {"
ImportCloseText == "x } from \"y\";"

\* Text that holds "import " without being an import statement.
ImportNoteText == "// import notes"

\* kind import_statement: the token the statement starts with.
IsImportStatement(tok) == tok.t \in {"imp", "impopen"}

\* The end of the import statement that starts at position p of s.
ImportStatementEnd(s, p) ==
    IF CharAt(s, p).t = "imp" THEN p + 1
    ELSE Min({q \in (p + 1)..Len(s) : CharAt(s, q - 1).t = "impclose"} \cup {Len(s)})

\* The statement has a string child matching "arkregex" and, under
\* import_clause > named_imports, an import_specifier with an identifier
\* "regex".
ImportsRegexFromArkregex(tok) ==
    /\ IsImportStatement(tok)
    /\ tok.v \in {ImportRegexText, ImportRegexAsArkregexText, ImportRegexAsRxText}

\* The text of the alias field of that import_specifier, "" when it has none.
ImportAlias(tok) ==
    CASE tok.v = ImportRegexAsArkregexText -> "arkregex"
      [] tok.v = ImportRegexAsRxText       -> "rx"
      [] OTHER                             -> ""

\* The name an arkregex import of regex binds in the file.
ImportBinding(tok) == IF ImportAlias(tok) = "" THEN "regex" ELSE ImportAlias(tok)

\* The names a statement token binds: the name field of a
\* variable_declarator, the left field of an assignment_expression, an
\* identifier inside formal_parameters.
DeclaratorNames(tok) ==
    CASE tok.v \in {"const regex = 1;", "const regex = "} -> {"regex"}
      [] tok.v = "const arkregex = 2;"                    -> {"arkregex"}
      [] tok.v = "const x = 1;"                           -> {"x"}
      [] tok.v = "const r = "                             -> {"r"}
      [] tok.v = "const s = "                             -> {"s"}
      [] OTHER                                            -> {}

AssignmentTargets(tok) ==
    CASE tok.v = "regex = 1;"    -> {"regex"}
      [] tok.v = "arkregex = 2;" -> {"arkregex"}
      [] OTHER                   -> {}

ParameterNames(tok) ==
    CASE tok.v = "function f(regex) {}"    -> {"regex"}
      [] tok.v = "function g(arkregex) {}" -> {"arkregex"}
      [] OTHER                             -> {}

\* The token holds an identifier node whose text is "regex".
MentionsRegex(tok) ==
    \/ tok.t = "id" /\ tok.v = "regex"
    \/ "regex" \in DeclaratorNames(tok) \cup AssignmentTargets(tok) \cup ParameterNames(tok)
    \/ tok.v \in {ImportRegexText, ImportRegexAsArkregexText, ImportRegexAsRxText,
                  ImportRegexFromOtherText}

Positions(s) == 0..(Len(s) - 1)

\* hasRegexImport: first the definition of the first identifier "regex" of
\* the file (an import whose source includes "arkregex"), then the scan of
\* the import statements.
hasRegexImport(s) ==
    LET mentions == {p \in Positions(s) : MentionsRegex(CharAt(s, p))}
        first    == CharAt(s, Min(mentions))
        existingImports == SortedSeq({p \in Positions(s) : ImportsRegexFromArkregex(CharAt(s, p))})
        aliased  == {k \in 1..Len(existingImports) : ImportAlias(CharAt(s, existingImports[k])) # ""}
    IN  IF mentions # {} /\ ImportsRegexFromArkregex(first)
        THEN [has |-> TRUE, alias |-> ImportAlias(first)]
        ELSE IF Len(existingImports) > 0
        THEN [has |-> TRUE,
              alias |-> IF aliased = {} THEN ""
                        ELSE ImportAlias(CharAt(s, existingImports[Min(aliased)]))]
        ELSE [has |-> FALSE, alias |-> ""]

\* Mutant: only the declarators are looked for.
hasRegexConflictDeclaratorsOnly(s) ==
    {p \in Positions(s) : "regex" \in DeclaratorNames(CharAt(s, p))} # {}

\* hasRegexConflict: a declarator, an assignment target or a parameter
\* named "regex" anywhere in the file.
hasRegexConflict(s) ==
    LET problematicDeclarators == {p \in Positions(s) : "regex" \in DeclaratorNames(CharAt(s, p))}
        problematicAssignments == {p \in Positions(s) : "regex" \in AssignmentTargets(CharAt(s, p))}
        problematicParams      == {p \in Positions(s) : "regex" \in ParameterNames(CharAt(s, p))}
    IN  \/ problematicDeclarators # {}
        \/ problematicAssignments # {}
        \/ problematicParams # {}

\* functionName and needsNewImport of transform.
ChooseFunctionName(hasConflict, existingAlias) ==
    IF hasConflict THEN "arkregex"
    ELSE IF existingAlias # "" THEN existingAlias ELSE "regex"

NeedsNewImport(alreadyHasRegexImport, hasConflict, existingAlias) ==
    ~alreadyHasRegexImport \/ (hasConflict /\ existingAlias = "")

---------------------------------------------------------------------------
(* Call sites *)

\* The new_expression nodes that have an arguments child following an
\* identifier "RegExp", as ranges [start, end) in document order.
newRegExpExpressions(s) ==
    LET starts == {p \in Positions(s) :
                      /\ p + 2 <= Len(s) - 1
                      /\ CharAt(s, p) = Kw("new")
                      /\ CharAt(s, p + 1).t = "id" /\ CharAt(s, p + 1).v = "RegExp"
                      /\ CharAt(s, p + 2) = Kw("(")
                      /\ MatchingClose(s, p + 3) # 0}
        order  == SortedSeq(starts)
    IN  [k \in 1..Len(order) |->
            [start |-> order[k], end |-> MatchingClose(s, order[k] + 3)]]

\* The call_expression nodes whose function is an identifier "RegExp";
\* they are looked for only when TRANSFORM_CALL_FORM is set.
regExpCalls(s) ==
    IF TRANSFORM_CALL_FORM
    THEN LET starts == {p \in Positions(s) :
                           /\ p + 1 <= Len(s) - 1
                           /\ CharAt(s, p).t = "id" /\ CharAt(s, p).v = "RegExp"
                           /\ CharAt(s, p + 1) = Kw("(")
                           /\ (p = 0 \/ CharAt(s, p - 1) # Kw("new"))
                           /\ MatchingClose(s, p + 2) # 0}
             order  == SortedSeq(starts)
         IN  [k \in 1..Len(order) |->
                 [start |-> order[k], end |-> MatchingClose(s, order[k] + 2)]]
    ELSE <<>>

\* The 1-based index in s of the "(" of the arguments of a new expression.
ArgumentsOpen(site) == site.start + 3

---------------------------------------------------------------------------
(* The replacement and the diagnostic comment of one accepted site *)

\* The binding name as it stands in emitted text; on a later parse it
\* resolves to the import of the file.
NameToken(name) == Ident(name, "import", "", <<>>)

\* " as Parameters<typeof N>[0]" and " as Parameters<typeof N>[1] | undefined"
PatternCast(name) == <<Kw("as"), Kw("Parameters<typeof"), NameToken(name), Kw(">[0]")>>
\* Mutant: the cast of the flags is the cast of the pattern.
FlagsCastAsPattern(name) == <<Kw("as"), Kw("Parameters<typeof"), NameToken(name), Kw(">[0]")>>

FlagsCast(name) == <<Kw("as"), Kw("Parameters<typeof"), NameToken(name), Kw(">[1] | undefined")>>

\* The replacement text built from functionName and the two arguments.
BuildReplacement(name, firstArg, secondArg) ==
    LET patternStatic == isStaticallyKnown(firstArg)
        flagsStatic   == IF secondArg # <<>> THEN isStaticallyKnown(secondArg) ELSE TRUE
    IN  <<NameToken(name), Kw("(")>>
          \o firstArg
          \o (IF patternStatic THEN <<>> ELSE PatternCast(name))
          \o (IF secondArg # <<>>
              THEN <<Kw(",")>> \o secondArg
                     \o (IF flagsStatic THEN <<>> ELSE FlagsCast(name))
              ELSE <<>>)
          \o <<Kw(")"), Kw("as"), Tok("type", "RegExp")>>

\* The parent of the expression is a member_expression whose object field
\* is the expression: the expression is followed by the "." of a property
\* access.
\* Mutant: a subscript access counts as a member access.
IsMemberOrSubscriptObject(s, site) ==
    site.end < Len(s) /\ CharAt(s, site.end) \in {Kw("."), Kw("[")}

IsMemberObject(s, site) == site.end < Len(s) /\ CharAt(s, site.end) = Kw(".")

WrapIfMemberObject(s, site, replacement) ==
    IF IsMemberObject(s, site)
    THEN <<Kw("(")>> \o replacement \o <<Kw(")")>>
    ELSE replacement

\* The position after the last line break before position p, 0 if none.
LineStart(s, p) == Max({q \in 1..p : CharAt(s, q - 1) = NL} \cup {0})

\* The text of the line that starts at lineStart.
CurrentLineText(s, lineStart) ==
    LET lineEnd == IndexOfNewline(s, lineStart)
    IN  IF lineEnd >= 0 THEN Substring(s, lineStart, lineEnd)
        ELSE Substring(s, lineStart, Len(s))

\* lineBeforeStart: from lineStart - 1, step over one line break, then walk
\* back while the text before the position is not a line break.
LineBeforeStart(s, lineStart) ==
    IF lineStart > 0
    THEN LET pos0 == lineStart - 1
             pos1 == IF pos0 >= 0 /\ CharAt(s, pos0) = NL THEN pos0 - 1 ELSE pos0
         IN  IF pos1 > 0 THEN LineStart(s, pos1) ELSE pos1
    ELSE -1

TextIncludesMarker(text) == \E i \in 1..Len(text) : IncludesMarker(text[i])

hasExistingComment(s, site) ==
    LET lineStart       == LineStart(s, site.start)
        currentLineText == CurrentLineText(s, lineStart)
        hasCommentOnCurrentLine ==
            StartsLineComment(currentLineText) /\ TextIncludesMarker(currentLineText)
        lineBeforeStart == LineBeforeStart(s, lineStart)
        hasCommentOnPreviousLine ==
            /\ lineBeforeStart >= 0
            /\ TextIncludesMarker(Substring(s, lineBeforeStart, lineStart))
    IN  hasCommentOnCurrentLine \/ hasCommentOnPreviousLine

todoComment == <<Tok("cmt", TodoCommentText), NL>>

Edit(startPos, endPos, insertedText) ==
    [startPos |-> startPos, endPos |-> endPos, insertedText |-> insertedText]

\* Mutant: the limit is off by one.
TooManyArgumentsOffByOne(allArgs) == Len(allArgs) > 3

\* allArgs.length > 2
TooManyArguments(allArgs) == Len(allArgs) > 2

\* One iteration of the loop over newRegExpExpressions: the edits it
\* pushes, <<>> when the site is skipped.
SiteEdits(s, name, site) ==
    LET args      == getArguments(s, ArgumentsOpen(site))
        firstArg  == args.first
        secondArg == args.second
        allArgs   == EffectiveArguments(s, ArgumentsOpen(site))
        patternStatic == isStaticallyKnown(firstArg)
        flagsStatic   == IF secondArg # <<>> THEN isStaticallyKnown(secondArg) ELSE TRUE
        replacement == WrapIfMemberObject(s, site, BuildReplacement(name, firstArg, secondArg))
        insertPos   == LineStart(s, site.start)
        comment     == IF (~patternStatic \/ ~flagsStatic) /\ ~hasExistingComment(s, site)
                       THEN <<Edit(insertPos, insertPos, todoComment)>>
                       ELSE <<>>
    IN  IF ~isGlobalRegExp(s, site.start + 1) THEN <<>>
        ELSE IF firstArg = <<>> THEN <<>>
        ELSE IF TooManyArguments(allArgs) THEN <<>>
        ELSE comment \o <<Edit(site.start, site.end, replacement)>>

---------------------------------------------------------------------------
(* commitEdits and the insertion of the import line *)

\* The edits in ascending startPos, edits of equal startPos in push order.
SortByStartPos(es) ==
    LET before(i, j) == \/ es[i].startPos < es[j].startPos
                        \/ es[i].startPos = es[j].startPos /\ i < j
    IN  [k \in 1..Len(es) |->
            es[CHOOSE i \in 1..Len(es) :
                  Cardinality({j \in 1..Len(es) : before(j, i)}) = k - 1]]

RECURSIVE ApplyEdits(_, _, _, _)
ApplyEdits(old, sorted, k, start) ==
    IF k > Len(sorted) THEN Substring(old, start, Len(old))
    ELSE IF start > sorted[k].startPos THEN ApplyEdits(old, sorted, k + 1, start)
    ELSE Substring(old, start, sorted[k].startPos)
           \o sorted[k].insertedText
           \o ApplyEdits(old, sorted, k + 1, sorted[k].endPos)

RECURSIVE ApplyEveryEdit(_, _, _, _)
ApplyEveryEdit(old, sorted, k, start) ==
    IF k > Len(sorted) THEN Substring(old, start, Len(old))
    ELSE Substring(old, start, sorted[k].startPos)
           \o sorted[k].insertedText
           \o ApplyEveryEdit(old, sorted, k + 1, sorted[k].endPos)

\* Mutant: an edit that overlaps the one before is applied as well.
commitEditsWithoutSkip(old, es) == ApplyEveryEdit(old, SortByStartPos(es), 1, 0)

\* rootNode.commitEdits(edits): the edits are applied in ascending start
\* position and an edit that starts before the end of the previous applied
\* edit is skipped.
commitEdits(old, es) == ApplyEdits(old, SortByStartPos(es), 1, 0)

importStatement(name) ==
    IF name = "arkregex"
    THEN <<Tok("imp", ImportRegexAsArkregexText), NL>>
    ELSE <<Tok("imp", ImportRegexText), NL>>

InsertAt(text, pos, inserted) ==
    Substring(text, 0, pos) \o inserted \o Substring(text, pos, Len(text))

\* The text contains "import " at position p.
HasImportKeywordAt(text, p) ==
    CharAt(text, p).v \in {ImportRegexText, ImportRegexAsArkregexText, ImportRegexAsRxText,
                          ImportRegexFromOtherText, ImportOtherText, ImportOpenText,
                          ImportNoteText}

\* The import line put into the committed text: after the last occurrence
\* of the text of the last import statement of the original file, else after
\* the line of the last "import ", else at the end, else at the start.
InsertImport(committed, original, name) ==
    LET existingImports == SortedSeq({p \in Positions(original) : IsImportStatement(CharAt(original, p))})
        lastImport      == existingImports[Len(existingImports)]
        lastImportText  == Substring(original, lastImport, ImportStatementEnd(original, lastImport))
        lastIndex       == LastIndexOf(committed, lastImportText)
        afterText       == lastIndex + Len(lastImportText)
        insertPos       == IF afterText < Len(committed) /\ CharAt(committed, afterText) = NL
                           THEN afterText + 1 ELSE afterText
        keywordHits     == {p \in Positions(committed) : HasImportKeywordAt(committed, p)}
        lastImportPos   == IF keywordHits = {} THEN -1 ELSE Max(keywordHits)
        lineEnd         == IndexOfNewline(committed, lastImportPos)
    IN  IF Len(existingImports) > 0
        THEN IF lastIndex # -1
             THEN InsertAt(committed, insertPos, importStatement(name))
             ELSE IF lastImportPos # -1
             THEN IF lineEnd # -1
                  THEN InsertAt(committed, lineEnd + 1, importStatement(name))
                  ELSE committed \o <<NL>> \o importStatement(name)
             ELSE importStatement(name) \o committed
        ELSE importStatement(name) \o committed

---------------------------------------------------------------------------
(* Input files *)

MaxChunks == 2   \* chunks of text in a composed input file
MaxDepth == 2    \* nesting of parentheses and "+" in a generated argument
MaxRuns == 2     \* runs of transform, each over the output of the one before

Join(chunks) ==
    LET RECURSIVE J(_)
        J(k) == IF k > Len(chunks) THEN <<>> ELSE chunks[k] \o <<NL>> \o J(k + 1)
    IN  J(1)

\* Identifiers as arguments, with what definition() finds for them.
UserInput == Ident("userInput", "", "", <<>>)
Flags     == Ident("flags", "", "", <<>>)
RegExpId(def) == Ident("RegExp", def, "", <<>>)

Initializers ==
    { <<Str("\"c\"")>>,                                   \* const c = "c"
      <<Tmpl("tpl-a")>>,                                  \* a template without substitution
      <<Tmpl("tpl-u")>>,                                  \* a template with one
      <<Str("\"a\""), Kw("+"), Str("\"b\"")>>,            \* "a" + "b"
      <<Kw("("), Str("\"a\""), Kw(")")>>,                 \* ("a")
      <<Ident("c", "local", "const", <<Str("\"c\"")>>)>>, \* another static const
      <<Ident("f", "", "", <<>>), Kw("("), Kw(")")>> }    \* f()

Atoms ==
    { <<Str("\"a\"")>>, <<Tmpl("tpl-a")>>, <<Tmpl("tpl-a-u-b")>>, <<UserInput>>,
      <<Ident("p", "local", "param", <<>>)>>,
      <<Ident("m", "import", "", <<>>)>>,
      <<Ident("u", "local", "let", <<>>)>>,
      <<Ident("f", "", "", <<>>), Kw("("), Kw(")")>> }
    \cup { <<Ident("k", "local", "const", init)>> : init \in Initializers }
    \cup { <<Ident("l", "local", decl, <<Str("\"c\"")>>)>> : decl \in {"let", "var"} }

RightOperands ==
    { <<Str("\"b\"")>>, <<UserInput>>, <<Ident("c", "local", "const", <<Str("\"c\"")>>)>> }

RECURSIVE Exprs(_)
Exprs(d) ==
    IF d = 0 THEN Atoms
    ELSE Exprs(d - 1)
           \cup { <<Kw("(")>> \o e \o <<Kw(")")>> : e \in Exprs(d - 1) }
           \cup { e \o <<Kw("+")>> \o r : e \in Exprs(d - 1), r \in RightOperands }

New(def, args) == <<Kw("new"), RegExpId(def), Kw("(")>> \o args \o <<Kw(")")>>

StaticSite  == New("", <<Str("\"a\"")>>) \o <<Kw(";")>>
DynamicSite == <<Tok("stmt", "const r = ")>> \o New("", <<UserInput>>) \o <<Kw(";")>>
MemberSite  == New("", <<Str("\"x\""), Kw(","), Flags>>)
                 \o <<Kw("."), Ident("test", "", "", <<>>), Kw("("), Ident("y", "", "", <<>>), Kw(")"), Kw(";")>>
NestedSite  == New("", New("", <<Str("\"a\"")>>) \o <<Kw("."), Ident("source", "", "", <<>>)>>) \o <<Kw(";")>>

ImportLines ==
    { <<Tok("imp", ImportRegexText)>>, <<Tok("imp", ImportRegexAsRxText)>>,
      <<Tok("imp", ImportOtherText)>>, <<Tok("imp", ImportRegexFromOtherText)>> }

BindingLines ==
    { <<Tok("stmt", v)>> : v \in {"const regex = 1;", "regex = 1;", "function f(regex) {}",
                                   "const arkregex = 2;", "arkregex = 2;",
                                   "function g(arkregex) {}", "const x = 1;"} }

\* Chunks of a composed file: a chunk is one line, or two where noted.
Chunks ==
    { StaticSite, DynamicSite, MemberSite, NestedSite,
      New("", <<>>) \o <<Kw(";")>>,                                          \* 0 arguments
      New("", <<Str("\"a\""), Kw(","), Str("\"g\""), Kw(","), UserInput>>),  \* 3 arguments
      New("", <<Tok("cmt", "/* c */"), Str("\"a\""), Kw(","), Tok("cmt", "/* d */"),
                Str("\"g\""), Kw(",")>>),                                    \* comments, trailing comma
      New("local", <<Str("\"a\"")>>), New("import", <<UserInput>>),
      New("external", <<Str("\"a\"")>>),
      <<RegExpId(""), Kw("("), UserInput, Kw(")"), Kw(";")>>,                \* call form
      <<Kw("new"), Ident("Foo", "", "", <<>>), Kw("."), RegExpId(""), Kw("("),
        Str("\"a\""), Kw(")")>>,                                             \* new Foo.RegExp("a")
      New("", <<UserInput>>) \o <<Kw("["), Kw("0"), Kw("]"), Kw(";")>>,      \* subscript, not member
      New("", <<UserInput>>) \o <<Kw(";")>> \o New("", <<Flags, Kw(","), Str("\"g\"")>>),
                                                                             \* two sites on a line
      <<Tok("cmt", TodoCommentText)>>,
      <<Tok("cmt", "// TODO(arkregex) checked by hand")>>,
      <<Tok("stmt", "const s = "), Str("str-TODO(arkregex)"), Kw(";")>>,
      <<Tok("cmt", "// note")>>,
      <<>>,                                                                  \* an empty line
      <<NL>> \o New("", <<UserInput>>),                                      \* empty line, then a site
      <<Tok("imp", ImportOtherText)>> \o New("", <<UserInput>>),             \* import and site on a line
      <<Tok("imp", ImportRegexText)>>, <<Tok("imp", ImportRegexAsRxText)>>,
      <<Tok("stmt", "const regex = ")>> \o New("", <<Str("\"a\"")>>) \o <<Kw(";")>> }

ChunkSeqs(n) == UNION { [1..k -> Chunks] : k \in 1..n }

\* Every import state with every conflict state, over a few bodies.
Headers ==
    { <<>> } \cup { Join(<<i>>) : i \in ImportLines } \cup { Join(<<b>>) : b \in BindingLines }
    \cup { Join(<<i, b>>) : i \in ImportLines, b \in BindingLines }
    \cup { Join(<< <<Tok("stmt", "const regex = 1;")>>, <<Tok("stmt", v)>> >>) :
             v \in {"const arkregex = 2;", "arkregex = 2;", "function g(arkregex) {}"} }

\* An import statement over two lines.
MultiLineImport == <<Tok("impopen", ImportOpenText), NL, Tok("impclose", ImportCloseText)>>

\* Files whose last import statement is hard to find again in the text.
ImportFiles ==
    { \* the text of the import statement again, as a line of a template literal
      Join(<< <<Tok("imp", ImportOtherText)>>, <<Tok("stmt", "const t = tpl-open")>>,
              <<Tok("tmplline", ImportOtherText)>>, <<Tok("stmt", "tpl-close;")>>, StaticSite >>),
      \* a site on the last line of the import statement
      Join(<< MultiLineImport \o New("", <<UserInput>>) >>),
      \* the same, and "import " in a comment further down
      Join(<< MultiLineImport \o New("", <<UserInput>>), <<Tok("cmt", ImportNoteText)>> >>),
      \* the same, the comment on the last line, which has no line break
      MultiLineImport \o New("", <<UserInput>>) \o <<Tok("cmt", ImportNoteText)>>,
      \* a site on the line after the import statement
      Join(<< MultiLineImport, DynamicSite >>) }

\* Two sites with a dynamic argument on one line that starts with other text.
SameLineFiles == { Join(<< DynamicSite \o New("", <<Flags>>) \o <<Kw(";")>> >>) }

\* A site as the operand of typeof and of a non-null assertion.
OperandFiles ==
    { Join(<< <<Kw("typeof")>> \o New("", <<Str("\"a\"")>>) \o <<Kw(";")>> >>),
      Join(<< New("", <<Str("\"a\"")>>) \o <<Kw("!"), Kw(";")>> >>) }

Bodies == { Join(<<StaticSite>>), Join(<<MemberSite>>), Join(<<New("", <<>>)>>) }

Files ==
    { h \o b : h \in Headers, b \in Bodies }
    \cup { Join(c) : c \in ChunkSeqs(MaxChunks) }
    \cup { Join(<<New("", e)>>) : e \in Exprs(MaxDepth) }
    \cup { Join(<<New("", e \o <<Kw(",")>> \o r)>>) : e \in RightOperands, r \in Atoms }
    \cup ImportFiles \cup SameLineFiles \cup OperandFiles

---------------------------------------------------------------------------
(* transform, one action per step *)

Init ==
    /\ sourceText \in Files
    /\ pc = "plan"
    /\ functionName = ""
    /\ needsNewImport = FALSE
    /\ sites = <<>>
    /\ next = 1
    /\ edits = <<>>
    /\ newSource = <<>>
    /\ result = "none"
    /\ run = 1
    /\ ManifestOff
    /\ InstallerOff

\* Lines 331-374: the import state, the conflict state, the binding name
\* and the lists of sites.
Plan ==
    /\ pc = "plan"
    /\ LET importInfo  == hasRegexImport(sourceText)
           hasConflict == hasRegexConflict(sourceText)
       IN  /\ functionName' = ChooseFunctionName(hasConflict, importInfo.alias)
           /\ needsNewImport' = NeedsNewImport(importInfo.has, hasConflict, importInfo.alias)
    /\ sites' = newRegExpExpressions(sourceText) \o regExpCalls(sourceText)
    /\ pc' = "sites"
    /\ UNCHANGED <<sourceText, next, edits, newSource, result, run>>
    /\ UNCHANGED manifestVars
    /\ UNCHANGED installerVars

\* Lines 376-488: one iteration of the loop over the sites.
ProcessSite ==
    /\ pc = "sites"
    /\ next <= Len(sites)
    /\ edits' = edits \o SiteEdits(sourceText, functionName, sites[next])
    /\ next' = next + 1
    /\ UNCHANGED <<sourceText, pc, functionName, needsNewImport, sites, newSource, result, run>>
    /\ UNCHANGED manifestVars
    /\ UNCHANGED installerVars

\* Mutant: a single edit counts as none.
NoEditsOrOnlyOne(es) == Len(es) <= 1

\* edits.length === 0
NoEdits(es) == Len(es) = 0

\* Lines 595-597: no edit, the no-change sentinel.
ReturnNull ==
    /\ pc = "sites"
    /\ next > Len(sites)
    /\ NoEdits(edits)
    /\ result' = "null"
    /\ pc' = "done"
    /\ UNCHANGED <<sourceText, functionName, needsNewImport, sites, next, edits, newSource, run>>
    /\ UNCHANGED manifestVars
    /\ UNCHANGED installerVars

\* Line 599.
CommitEdits ==
    /\ pc = "sites"
    /\ next > Len(sites)
    /\ ~NoEdits(edits)
    /\ newSource' = commitEdits(sourceText, edits)
    /\ pc' = "import"
    /\ UNCHANGED <<sourceText, functionName, needsNewImport, sites, next, edits, result, run>>
    /\ UNCHANGED manifestVars
    /\ UNCHANGED installerVars

\* Lines 601-664: the import line, and the return of the text.
AddImportAndReturn ==
    /\ pc = "import"
    /\ newSource' = IF needsNewImport
                    THEN InsertImport(newSource, sourceText, functionName)
                    ELSE newSource
    /\ result' = "text"
    /\ pc' = "done"
    /\ UNCHANGED <<sourceText, functionName, needsNewImport, sites, next, edits, run>>
    /\ UNCHANGED manifestVars
    /\ UNCHANGED installerVars

\* The caller runs transform again, over the text the last run returned.
RunAgain ==
    /\ pc = "done"
    /\ result = "text"
    /\ run < MaxRuns
    /\ sourceText' = newSource
    /\ run' = run + 1
    /\ pc' = "plan"
    /\ functionName' = ""
    /\ needsNewImport' = FALSE
    /\ sites' = <<>>
    /\ next' = 1
    /\ edits' = <<>>
    /\ newSource' = <<>>
    /\ result' = "none"
    /\ UNCHANGED manifestVars
    /\ UNCHANGED installerVars

Next ==
    \/ Plan
    \/ ProcessSite
    \/ ReturnNull
    \/ CommitEdits
    \/ AddImportAndReturn
    \/ RunAgain

Spec == Init /\ [][Next]_<<vars, manifestVars, installerVars>>

---------------------------------------------------------------------------
(* add-dependency.ts: JSON values as JavaScript sees them *)

PACKAGE_NAME == "arkregex"
PACKAGE_VERSION == "0.0.5"

JString(s) == JVal("string", s, <<>>)
JNumber(s) == JVal("number", s, <<>>)
JNull == JVal("null", "", <<>>)
JObject(e) == JVal("object", "", e)
JArray(e) == JVal("array", "", e)

\* The value as a condition: !v is the negation of this.
Truthy(v) ==
    CASE v.k \in {"undefined", "null"} -> FALSE
      [] v.k = "string"                -> v.s # ""
      [] v.k = "number"                -> v.s # "0"
      [] OTHER                         -> TRUE

\* The indices of the entries of v under the key.
EntriesOf(v, key) == {i \in 1..Len(v.e) : v.e[i][1] = key}

\* v[key] for a value that is neither null nor undefined: the own property,
\* undefined when there is none (a number has none).
Get(v, key) ==
    IF EntriesOf(v, key) = {} THEN Undefined
    ELSE v.e[CHOOSE i \in EntriesOf(v, key) : TRUE][2]

\* v?.[key]
OptionalGet(v, key) == IF v.k \in {"undefined", "null"} THEN Undefined ELSE Get(v, key)

\* v[key] = val on an object or an array: the property keeps its place if
\* it exists and is added after the others if not.
Set(v, key, val) ==
    IF EntriesOf(v, key) = {}
    THEN [v EXCEPT !.e = Append(v.e, <<key, val>>)]
    ELSE [v EXCEPT !.e = [i \in 1..Len(v.e) |->
                              IF v.e[i][1] = key THEN <<key, val>> ELSE v.e[i]]]

\* An assignment to a property of a primitive throws a TypeError in the
\* strict mode of a module.
AssignmentThrows(v) == v.k \in {"string", "number", "boolean"}

\* The order of the keys of the model under Array.prototype.sort(), which
\* compares UTF-16 code units.
KeyOrder == <<"0", "arkregex", "axios", "zod">>
KeyRank(key) == CHOOSE r \in 1..Len(KeyOrder) : KeyOrder[r] = key

\* Object.keys(obj).sort()
SortedKeys(obj) ==
    LET keys == {obj.e[i][1] : i \in 1..Len(obj.e)}
        ranks == SortedSeq({KeyRank(key) : key \in keys})
    IN  [n \in 1..Len(ranks) |-> KeyOrder[ranks[n]]]

\* sortObjectKeys: a fresh object with the own keys of obj in sorted order.
\* A number has no own keys.
sortObjectKeys(obj) ==
    LET sortedKeys == SortedKeys(obj)
    IN  JObject([n \in 1..Len(sortedKeys) |-> <<sortedKeys[n], Get(obj, sortedKeys[n])>>])

---------------------------------------------------------------------------
(* add-dependency.ts: the scan of the package directory *)

maxDepth == 5

\* A directory entry: type "dir", "file" or "other"; ok says that readdir
\* or readFile succeeds on it; content is what a file holds.
DirEntry(type, name, ok, entries, content) ==
    [type |-> type, name |-> name, ok |-> ok, entries |-> entries, content |-> content]

Dir(name, ok, entries) == DirEntry("dir", name, ok, entries, "")
File(name, ok, content) == DirEntry("file", name, ok, <<>>, content)

\* fileName.endsWith(".ts") || fileName.endsWith(".tsx")
IsTypeScriptFile(name) == name \in {"a.ts", "b.tsx", "d.ts", "e.ts"}

\* content.includes(`from "arkregex"`) || content.includes(`from 'arkregex'`)
IncludesFrom(content) == content \in {"from dq arkregex", "from sq arkregex"}

SkippedDirectories == {"node_modules", ".git", "dist", "build"}

RECURSIVE checkForPackageImports(_, _)
RECURSIVE ScanEntries(_, _, _)

\* The loop over the entries of a directory read at currentDepth, from the
\* i-th entry on.
ScanEntries(entries, i, currentDepth) ==
    IF i > Len(entries) THEN FALSE
    ELSE LET entry == entries[i]
         IN  IF entry.type = "dir"
             THEN IF entry.name \in SkippedDirectories
                  THEN ScanEntries(entries, i + 1, currentDepth)
                  ELSE IF checkForPackageImports(entry, currentDepth + 1) THEN TRUE
                  ELSE ScanEntries(entries, i + 1, currentDepth)
             ELSE IF entry.type = "file" /\ IsTypeScriptFile(entry.name)
             THEN IF entry.ok /\ IncludesFrom(entry.content) THEN TRUE
                  ELSE ScanEntries(entries, i + 1, currentDepth)
             ELSE ScanEntries(entries, i + 1, currentDepth)

\* checkForPackageImports(dirPath, packageName, maxDepth, currentDepth): a
\* directory that cannot be read yields false.
checkForPackageImports(dir, currentDepth) ==
    IF currentDepth > maxDepth THEN FALSE
    ELSE IF ~dir.ok THEN FALSE
    ELSE ScanEntries(dir.entries, 1, currentDepth)

---------------------------------------------------------------------------
(* add-dependency.ts: input files and directories *)

MaxNesting == 6   \* directories nested below the package directory
MaxEntries == 2   \* entries of the package directory

Paths == {"pkg/package.json", "pkg/tsconfig.json"}

\* packageJsonPath.endsWith("package.json")
EndsWithPackageJson(path) == path = "pkg/package.json"

DependencyEntries ==
    { <<>>,
      << <<"zod", JString("^3.0.0")>> >>,
      << <<"zod", JString("^3.0.0")>>, <<"axios", JString("^1.0.0")>> >>,
      << <<"axios", JString("^1.0.0")>>, <<"zod", JString("^3.0.0")>> >>,
      << <<"arkregex", JString("^1.0.0")>> >>,
      << <<"arkregex", JString("")>> >>,
      << <<"zod", JString("^3.0.0")>>, <<"arkregex", JString("^1.0.0")>> >> }

\* What a manifest text can hold under "dependencies": nothing, null, a
\* number, an array, an object.
DependenciesValues ==
    { Undefined, JNull, JNumber("1"), JArray(<< <<"0", JString("zod")>> >>) }
    \cup { JObject(e) : e \in DependencyEntries }

DevDependenciesValues ==
    { Undefined, JNumber("1") }
    \cup { JObject(e) : e \in { << <<"zod", JString("^3.0.0")>>, <<"axios", JString("^1.0.0")>> >>,
                               << <<"arkregex", JString("^1.0.0")>> >>,
                               << <<"arkregex", JString("")>> >> } }

\* The entry of an object for a property, none for an absent one.
Field(key, val) == IF val = Undefined THEN <<>> ELSE << <<key, val>> >>

ManifestObjects ==
    { JObject(Field("name", name) \o Field("version", version)
                \o Field("scripts", JObject(<<>>))
                \o Field("dependencies", deps) \o Field("devDependencies", dev)) :
        name \in {Undefined, JString("pkg"), JString("")},
        version \in {Undefined, JString("1.0.0")},
        deps \in DependenciesValues,
        dev \in DevDependenciesValues }

\* The text of the file: whether JSON.parse accepts it, and the value.
Sources ==
    { [parses |-> FALSE, value |-> Undefined] }
    \cup { [parses |-> TRUE, value |-> v] :
             v \in {JNull, JNumber("1"), JString("x"), JArray(<<>>)} \cup ManifestObjects }

ImportingFile == File("a.ts", TRUE, "from dq arkregex")

RECURSIVE Nested(_)
\* The importing file below d directories.
Nested(d) == IF d = 0 THEN ImportingFile ELSE Dir("src", TRUE, <<Nested(d - 1)>>)

Entries ==
    { ImportingFile,
      File("b.tsx", TRUE, "from sq arkregex"),
      File("c.js", TRUE, "from dq arkregex"),
      File("d.ts", FALSE, "from dq arkregex"),
      File("e.ts", TRUE, "require arkregex"),
      Dir("node_modules", TRUE, <<ImportingFile>>),
      Dir("lib", FALSE, <<ImportingFile>>),
      DirEntry("other", "a.ts", TRUE, <<>>, "from dq arkregex") }
    \cup { Nested(d) : d \in 1..MaxNesting }

PackageDirs ==
    { Dir("pkg", FALSE, <<ImportingFile>>) }
    \cup { Dir("pkg", TRUE, es) : es \in UNION { [1..n -> Entries] : n \in 0..MaxEntries } }

NotRead == Dir("", FALSE, <<>>)

---------------------------------------------------------------------------
(* add-dependency.ts: transform, one action per step *)

ManifestInit ==
    /\ CodemodOff
    /\ InstallerOff
    /\ mpc = "parse"
    /\ packageJsonPath \in Paths
    /\ source \in Sources
    /\ packageJson = Undefined
    /\ packageDir = NotRead
    /\ hasImport = FALSE
    /\ output = "none"

\* Lines 16-27: the file name and JSON.parse.
ParseManifest ==
    /\ mpc = "parse"
    /\ IF ~EndsWithPackageJson(packageJsonPath) \/ ~source.parses
       THEN /\ output' = "null" /\ mpc' = "done" /\ UNCHANGED packageJson
       ELSE /\ packageJson' = source.value /\ mpc' = "check" /\ UNCHANGED output
    /\ UNCHANGED <<packageJsonPath, source, packageDir, hasImport>>
    /\ UNCHANGED vars
    /\ UNCHANGED installerVars

\* Lines 29-37: the name or version field and the declared dependency. The
\* read of a property of null throws.
CheckManifest ==
    /\ mpc = "check"
    /\ IF packageJson.k = "null"
       THEN output' = "throws" /\ mpc' = "done"
       ELSE IF ~Truthy(Get(packageJson, "name")) /\ ~Truthy(Get(packageJson, "version"))
       THEN output' = "null" /\ mpc' = "done"
       ELSE IF \/ Truthy(OptionalGet(Get(packageJson, "dependencies"), PACKAGE_NAME))
               \/ Truthy(OptionalGet(Get(packageJson, "devDependencies"), PACKAGE_NAME))
       THEN output' = "null" /\ mpc' = "done"
       ELSE mpc' = "scan" /\ UNCHANGED output
    /\ UNCHANGED <<packageJsonPath, source, packageJson, packageDir, hasImport>>
    /\ UNCHANGED vars
    /\ UNCHANGED installerVars

\* Lines 39-47: the scan of the directory of the file.
ScanSources ==
    /\ mpc = "scan"
    /\ \E dir \in PackageDirs :
          /\ packageDir' = dir
          /\ hasImport' = checkForPackageImports(dir, 0)
    /\ IF ~hasImport'
       THEN output' = "null" /\ mpc' = "done"
       ELSE mpc' = "write" /\ UNCHANGED output
    /\ UNCHANGED <<packageJsonPath, source, packageJson>>
    /\ UNCHANGED vars
    /\ UNCHANGED installerVars

\* Lines 49-62: the entry is set, both groups are sorted, and the manifest
\* is serialized. The value serialized stands for the text.
WriteManifest ==
    /\ mpc = "write"
    /\ LET missing   == ~Truthy(Get(packageJson, "dependencies"))
           withGroup == IF missing THEN Set(packageJson, "dependencies", JObject(<<>>))
                        ELSE packageJson
           group     == Get(withGroup, "dependencies")
           added     == Set(group, PACKAGE_NAME, JString(PACKAGE_VERSION))
           sorted    == Set(withGroup, "dependencies", sortObjectKeys(added))
           dev       == Get(sorted, "devDependencies")
       IN  IF AssignmentThrows(group)
           THEN output' = "throws" /\ UNCHANGED packageJson
           ELSE /\ output' = "text"
                /\ packageJson' = IF Truthy(dev)
                                  THEN Set(sorted, "devDependencies", sortObjectKeys(dev))
                                  ELSE sorted
    /\ mpc' = "done"
    /\ UNCHANGED <<packageJsonPath, source, packageDir, hasImport>>
    /\ UNCHANGED vars
    /\ UNCHANGED installerVars

ManifestNext ==
    \/ ParseManifest
    \/ CheckManifest
    \/ ScanSources
    \/ WriteManifest

ManifestSpec == ManifestInit /\ [][ManifestNext]_<<vars, manifestVars, installerVars>>

---------------------------------------------------------------------------
(* add-dependency.sh: paths as the shell spells them *)

MaxPathDepth == 3   \* components of a target directory argument

\* A path: absolute or relative, and its components. "/" is the absolute
\* path without components, "." the relative one.
Path(abs, parts) == [abs |-> abs, parts |-> parts]
RootPath == Path(TRUE, <<>>)
DotPath == Path(FALSE, <<>>)
UnsetPath == Path(FALSE, <<"">>)

\* dirname: the path without its last component; of "/" it is "/", of "."
\* and of a single relative component it is ".".
dirname(p) ==
    IF p.parts = <<>> THEN p
    ELSE Path(p.abs, SubSeq(p.parts, 1, Len(p.parts) - 1))

\* is_monorepo_root: the directory has a package.json and a workspace
\* marker.
is_monorepo_root(d, marked) == d \in marked

DirectoryNames == {"a", "b"}

TargetDirectories ==
    { Path(abs, parts) :
        abs \in BOOLEAN,
        parts \in UNION { [1..n -> DirectoryNames] : n \in 0..MaxPathDepth } }

RECURSIVE AncestorsOrSelf(_)
\* The directory and what dirname yields from it, step by step.
AncestorsOrSelf(p) ==
    IF p.parts = <<>> THEN {p} ELSE {p} \cup AncestorsOrSelf(dirname(p))

---------------------------------------------------------------------------
(* add-dependency.sh: main up to the install decision, one action per step *)

InstallerInit ==
    /\ CodemodOff
    /\ ManifestOff
    /\ ipc = "start"
    /\ arguments \in { <<>> } \cup { <<p>> : p \in TargetDirectories }
    /\ markers \in SUBSET AncestorsOrSelf(IF arguments = <<>> THEN DotPath ELSE arguments[1])
    /\ target_dir = UnsetPath
    /\ sh_dir = UnsetPath
    /\ current = UnsetPath
    /\ monorepo_root = UnsetPath
    /\ decision = ""

\* Lines 166-175 and 112-113: the target directory, "." by default, and
\* the call of find_monorepo_root.
StartSearch ==
    /\ ipc = "start"
    /\ target_dir' = IF arguments = <<>> THEN DotPath ELSE arguments[1]
    /\ sh_dir' = target_dir'
    /\ current' = target_dir'
    /\ ipc' = "loop"
    /\ UNCHANGED <<arguments, markers, monorepo_root, decision>>
    /\ UNCHANGED <<vars, manifestVars>>

\* Lines 115-121: one turn of the loop. is_monorepo_root assigns its
\* argument to dir, a variable it shares with find_monorepo_root.
CheckDirectory ==
    /\ ipc = "loop"
    /\ current # RootPath
    /\ sh_dir' = current
    /\ IF is_monorepo_root(current, markers)
       THEN monorepo_root' = current /\ ipc' = "decide" /\ UNCHANGED current
       ELSE current' = dirname(current) /\ UNCHANGED <<ipc, monorepo_root>>
    /\ UNCHANGED <<arguments, markers, target_dir, decision>>
    /\ UNCHANGED <<vars, manifestVars>>

\* Lines 123-124: the loop has reached "/" and dir is printed.
ReturnDirectory ==
    /\ ipc = "loop"
    /\ current = RootPath
    /\ monorepo_root' = sh_dir
    /\ ipc' = "decide"
    /\ UNCHANGED <<arguments, markers, target_dir, sh_dir, current, decision>>
    /\ UNCHANGED <<vars, manifestVars>>

\* Lines 176-179 and 204: main tests the directory it got and takes the
\* monorepo branch or the other.
Decide ==
    /\ ipc = "decide"
    /\ decision' = IF is_monorepo_root(monorepo_root, markers) THEN "monorepo" ELSE "single"
    /\ ipc' = "decided"
    /\ UNCHANGED <<arguments, markers, target_dir, sh_dir, current, monorepo_root>>
    /\ UNCHANGED <<vars, manifestVars>>

InstallerNext ==
    \/ StartSearch
    \/ CheckDirectory
    \/ ReturnDirectory
    \/ Decide

\* The shell runs the script on: a step that can be taken is taken.
InstallerSpec ==
    /\ InstallerInit
    /\ [][InstallerNext]_<<vars, manifestVars, installerVars>>
    /\ WF_<<vars, manifestVars, installerVars>>(InstallerNext)

---------------------------------------------------------------------------
(* Vocabulary of the properties *)

Returned == pc = "done"
ReturnedText == pc = "done" /\ result = "text"

\* The sites the loop has handled so far.
Handled == IF pc = "plan" THEN {} ELSE {sites[k] : k \in 1..(next - 1)}

IsInsertion(e) == e.startPos = e.endPos

\* The indices in edits of the replacement edits whose range is the site.
ReplacementsOf(site) ==
    {i \in 1..Len(edits) :
        ~IsInsertion(edits[i]) /\ edits[i].startPos = site.start /\ edits[i].endPos = site.end}

\* The replacement text pushed for a site that has one.
ReplacementOf(site) == edits[CHOOSE i \in ReplacementsOf(site) : TRUE].insertedText

\* A comment insertion was pushed for the site: the edit pushed right before
\* its replacement is an insertion.
CommentScheduledFor(site) ==
    \E i \in ReplacementsOf(site) : i > 1 /\ IsInsertion(edits[i - 1])

ArgumentsOf(site) == EffectiveArguments(sourceText, ArgumentsOpen(site))

CalleeIsGlobal(site) == isGlobalRegExp(sourceText, site.start + 1)

\* The acceptance rule as the specification states it.
Accepted(site) == CalleeIsGlobal(site) /\ Len(ArgumentsOf(site)) \in {1, 2}

HasDynamicArgument(site) ==
    \E k \in 1..Len(ArgumentsOf(site)) : ~isStaticallyKnown(ArgumentsOf(site)[k])

\* The names the file binds by a declarator, an assignment or a parameter.
LocallyBound(s) ==
    UNION { DeclaratorNames(s[i]) \cup AssignmentTargets(s[i]) \cup ParameterNames(s[i]) :
              i \in 1..Len(s) }

ArkregexImports(s) == {p \in Positions(s) : ImportsRegexFromArkregex(CharAt(s, p))}

\* How many imports of regex from arkregex bind the name in the text.
BindingCount(s, name) ==
    Cardinality({p \in ArkregexImports(s) : ImportBinding(CharAt(s, p)) = name})

\* One site lies inside the argument list of another.
HasNestedSite(s) ==
    \E a, b \in {newRegExpExpressions(s)[k] : k \in 1..Len(newRegExpExpressions(s))} :
        a.start < b.start /\ b.end <= a.end

---------------------------------------------------------------------------
(* C1 *)

\* C1: when a run of transform returned rewritten text, the run over that
\* text returns the no-change sentinel.
C1_Idempotence == (run >= 2 /\ Returned) => result = "null"

---------------------------------------------------------------------------
(* C2 *)

\* C2: whenever transform returns rewritten text, that text holds an import
\* of regex from arkregex that binds the name used in the replacements.
C2_ImportBindsName ==
    ReturnedText => BindingCount(newSource, functionName) >= 1

---------------------------------------------------------------------------
(* C3 *)

C3_Conflict == "regex" \in LocallyBound(sourceText)

C3_Aliased ==
    \E p \in ArkregexImports(sourceText) : ImportAlias(CharAt(sourceText, p)) # ""

\* The names an emitted replacement mentions in its casts.
C3_CastNames(text) ==
    {text[j].v : j \in {i \in 2..Len(text) : text[i - 1] = Kw("Parameters<typeof")}}

---------------------------------------------------------------------------
(* C4 *)

\* C4: the binding name of the replacements and of the inserted import is
\* never a name the file binds by a declarator, an assignment target or a
\* parameter.
C4_CollisionSafe ==
    (pc # "plan" /\ Len(edits) > 0) => functionName \notin LocallyBound(sourceText)

---------------------------------------------------------------------------
(* C5 *)

C5_CallFormStarts ==
    {p \in Positions(sourceText) :
        /\ p + 1 <= Len(sourceText) - 1
        /\ CharAt(sourceText, p).t = "id" /\ CharAt(sourceText, p).v = "RegExp"
        /\ CharAt(sourceText, p + 1) = Kw("(")
        /\ (p = 0 \/ CharAt(sourceText, p - 1) # Kw("new"))}

\* C5: a handled constructor site has a replacement edit exactly when its
\* callee is classified global and it has 1 or 2 effective arguments; the
\* other sites get neither a replacement nor a comment; a file with no
\* accepted site is returned as no-change; no call-form site is replaced.
C5_SiteAcceptance ==
    /\ \A site \in Handled :
          /\ Accepted(site) <=> ReplacementsOf(site) # {}
          /\ Cardinality(ReplacementsOf(site)) <= 1
    /\ \A i \in 1..Len(edits) :
          IF IsInsertion(edits[i])
          THEN i < Len(edits) /\ ~IsInsertion(edits[i + 1])
          ELSE \E site \in Handled : Accepted(site) /\ i \in ReplacementsOf(site)
    /\ (Returned /\ \A k \in 1..Len(sites) : ~Accepted(sites[k])) => result = "null"
    /\ \A i \in 1..Len(edits) :
          ~IsInsertion(edits[i]) => edits[i].startPos \notin C5_CallFormStarts

C5_Witness ==
    /\ Returned
    /\ \E site \in Handled : Accepted(site) /\ Len(ArgumentsOf(site)) = 2
    /\ \E site \in Handled : CalleeIsGlobal(site) /\ Len(ArgumentsOf(site)) = 3
    /\ C5_CallFormStarts = {}

---------------------------------------------------------------------------
(* C6 *)

C6_RegExpIdentifiers ==
    {p \in Positions(sourceText) :
        CharAt(sourceText, p).t = "id" /\ CharAt(sourceText, p).v = "RegExp"}

C6_InMemberExpression(p) == p > 0 /\ CharAt(sourceText, p - 1) = Kw(".")

\* C6: isGlobalRegExp is false for an identifier in a member expression, for
\* one that resolves to a local binding and for one that resolves to an
\* import; it is true only when the identifier has no binding record; and a
\* site whose callee is not global gets no replacement and no comment.
C6_GlobalOnlyWithoutBinding ==
    Returned =>
        /\ \A p \in C6_RegExpIdentifiers :
              isGlobalRegExp(sourceText, p)
                <=> (~C6_InMemberExpression(p) /\ CharAt(sourceText, p).def = "")
        /\ \A site \in Handled : ~CalleeIsGlobal(site) => ReplacementsOf(site) = {}
        /\ (\A site \in Handled : ~CalleeIsGlobal(site)) => edits = <<>>

---------------------------------------------------------------------------
(* C7 *)

\* The arguments of every constructor site of the file.
C7_Arguments ==
    LET found == newRegExpExpressions(sourceText)
        args(site) == EffectiveArguments(sourceText, ArgumentsOpen(site))
    IN  UNION { {args(found[j])[k] : k \in 1..Len(args(found[j]))} : j \in 1..Len(found) }

RECURSIVE C7_Grammar(_)
C7_Grammar(e) ==
    LET kind == NodeKind(e)
    IN  CASE kind = "string"                   -> TRUE
          [] kind = "template_string"          -> ~HasSubstitution(e[1])
          [] kind = "parenthesized_expression" -> C7_Grammar(InnerExpression(e))
          [] kind = "identifier"               ->
                /\ e[1].def = "local"
                /\ e[1].decl = "const"
                /\ e[1].init # <<>>
                /\ C7_Grammar(e[1].init)
          [] kind = "binary_expression"        ->
                C7_Grammar(LeftOperand(e)) /\ C7_Grammar(RightOperand(e))
          [] OTHER                             -> FALSE

RECURSIVE C7_LiteralGrammar(_)
C7_LiteralGrammar(e) ==
    LET kind == NodeKind(e)
    IN  CASE kind = "string"                   -> TRUE
          [] kind = "template_string"          -> ~HasSubstitution(e[1])
          [] kind = "parenthesized_expression" -> C7_LiteralGrammar(InnerExpression(e))
          [] kind = "identifier"               ->
                /\ e[1].def = "local"
                /\ e[1].decl = "const"
                /\ Len(e[1].init) = 1
                /\ \/ e[1].init[1].t = "str"
                   \/ e[1].init[1].t = "tmpl" /\ ~HasSubstitution(e[1].init[1])
          [] kind = "binary_expression"        ->
                C7_LiteralGrammar(LeftOperand(e)) /\ C7_LiteralGrammar(RightOperand(e))
          [] OTHER                             -> FALSE

---------------------------------------------------------------------------
(* C8 *)

C8_Expected(site) ==
    LET a  == ArgumentsOf(site)
        n  == NameToken(functionName)
        a1 == a[1] \o (IF isStaticallyKnown(a[1]) THEN <<>>
                       ELSE <<Kw("as"), Kw("Parameters<typeof"), n, Kw(">[0]")>>)
        a2 == IF Len(a) = 2
              THEN <<Kw(",")>> \o a[2]
                     \o (IF isStaticallyKnown(a[2]) THEN <<>>
                         ELSE <<Kw("as"), Kw("Parameters<typeof"), n, Kw(">[1] | undefined")>>)
              ELSE <<>>
    IN  <<n, Kw("(")>> \o a1 \o a2 \o <<Kw(")"), Kw("as"), Tok("type", "RegExp")>>

---------------------------------------------------------------------------
(* C9 *)

C9_IsReceiver(site) ==
    site.end < Len(sourceText) /\ CharAt(sourceText, site.end) = Kw(".")

\* C9: the replacement of an accepted site is inside exactly one added pair
\* of parentheses when the site is the object of a member expression, and
\* has no added parentheses otherwise.
C9_MemberParentheses ==
    \A site \in Handled :
        ReplacementsOf(site) # {} =>
            LET r == ReplacementOf(site)
            IN  IF C9_IsReceiver(site)
                THEN /\ r[1] = Kw("(") /\ r[Len(r)] = Kw(")")
                     /\ r[2] = NameToken(functionName)
                     /\ r[Len(r) - 1] = Tok("type", "RegExp")
                ELSE /\ r[1] = NameToken(functionName)
                     /\ r[Len(r)] = Tok("type", "RegExp")

C9_Witness ==
    /\ Returned
    /\ \E site \in Handled : ReplacementsOf(site) # {} /\ C9_IsReceiver(site)
    /\ \E site \in Handled :
          /\ ReplacementsOf(site) # {}
          /\ site.end < Len(sourceText) /\ CharAt(sourceText, site.end) = Kw("[")

---------------------------------------------------------------------------
(* C10 *)

C10_OwnLine(site) == CurrentLineText(sourceText, LineStart(sourceText, site.start))

\* The text of the line right above the line of the site, <<>> if none.
C10_PrecedingLine(site) ==
    LET lineStart == LineStart(sourceText, site.start)
    IN  IF lineStart = 0 THEN <<>>
        ELSE Substring(sourceText, LineStart(sourceText, lineStart - 1), lineStart - 1)

C10_MarkerSeen(site) ==
    \/ /\ StartsLineComment(C10_OwnLine(site))
       /\ IncludesMarker(C10_OwnLine(site)[1])
    \/ TextIncludesMarker(C10_PrecedingLine(site))

\* C10: for an accepted site with a dynamic argument a comment insertion is
\* scheduled exactly when the marker is absent from the leading comment of
\* the line of the site and from the line right above it; lines further up
\* are not consulted.
C10_CommentSkipRule ==
    \A site \in Handled :
        (ReplacementsOf(site) # {} /\ HasDynamicArgument(site)) =>
            (CommentScheduledFor(site) <=> ~C10_MarkerSeen(site))

---------------------------------------------------------------------------
(* C11 *)

\* The insertion edits pushed so far, by index in edits.
C11_Insertions == {i \in 1..Len(edits) : IsInsertion(edits[i])}

\* How many lines of the text are the diagnostic comment.
C11_CommentLines(s) ==
    Cardinality({p \in Positions(s) : CharAt(s, p) = Tok("cmt", TodoCommentText)})

\* The line starts of the accepted sites that have a dynamic argument.
C11_AnnotatedLines ==
    {LineStart(sourceText, site.start) :
        site \in {x \in Handled : ReplacementsOf(x) # {} /\ HasDynamicArgument(x)}}

\* C11: one run never adds two diagnostic comments before the same source
\* line, however many accepted sites with a dynamic argument the line holds:
\* the returned text gains at most one comment line per annotated line, the
\* run pushes at most one comment insertion per accepted site with a dynamic
\* argument, and none for a file without such a site.
C11_NoDuplicateDiagnostics ==
    Returned =>
        /\ result = "text" =>
              C11_CommentLines(newSource) - C11_CommentLines(sourceText)
                 <= Cardinality(C11_AnnotatedLines)
        /\ Cardinality(C11_Insertions)
              <= Cardinality({x \in Handled : ReplacementsOf(x) # {} /\ HasDynamicArgument(x)})
        /\ C11_AnnotatedLines = {} => C11_Insertions = {}

---------------------------------------------------------------------------
(* C12 *)

\* The line holds a rewritten site that has a cast of a dynamic argument.
C12_HasAnnotatedSite(line) ==
    \E k \in 1..(Len(line) - 1) :
        /\ line[k] = NameToken(functionName)
        /\ line[k + 1] = Kw("(")
        /\ \E m \in (k + 2)..Len(line) : line[m] = Kw("Parameters<typeof")

\* The positions of the diagnostic comments in the text.
C12_CommentPositions(s) == {p \in Positions(s) : CharAt(s, p) = Tok("cmt", TodoCommentText)}

\* C12: in the text transform returns, import line included, every
\* diagnostic comment the run inserted is the line right above the line
\* that holds the rewritten site, wherever the site stands relative to the
\* import statements. The input has no diagnostic comment of its own, so
\* every one in the output was inserted by the run.
C12_CommentAboveSite ==
    (ReturnedText /\ C12_CommentPositions(sourceText) = {}) =>
        \A p \in C12_CommentPositions(newSource) :
            C12_HasAnnotatedSite(CurrentLineText(newSource, p + 2))

---------------------------------------------------------------------------
(* C13 *)

\* The replacement edits of the list, by index.
C13_Replacements == {i \in 1..Len(edits) : ~IsInsertion(edits[i])}

\* A replacement edit whose text stands in the returned text.
C13_Applied(i) ==
    \E p \in Positions(newSource) :
        /\ p + Len(edits[i].insertedText) <= Len(newSource)
        /\ Substring(newSource, p, p + Len(edits[i].insertedText)) = edits[i].insertedText

\* C13: transform returns null exactly when no site was accepted; then
\* there is no edit and no text, so no import line and no comment is added
\* whatever the import and conflict state of the file. When it returns
\* text, a replacement edit was applied and the text differs from the input.
C13_NoChangeSentinel ==
    Returned =>
        /\ result = "null" <=> (\A site \in Handled : ~Accepted(site))
        /\ result = "null" => (edits = <<>> /\ newSource = <<>>)
        /\ result = "text" =>
              /\ \E i \in C13_Replacements : C13_Applied(i)
              /\ newSource # sourceText

\* A file that needs an import and has a conflict returns null because
\* every site it has is rejected.
C13_Witness ==
    /\ Returned
    /\ result = "null"
    /\ needsNewImport
    /\ functionName = "arkregex"
    /\ Len(sites) > 0

---------------------------------------------------------------------------
(* C14 *)

\* The text after commitEdits, before the import line is inserted.
C14_Committed == commitEdits(sourceText, edits)

\* The import statements of a text, by start position. The edits neither
\* add nor remove one, so the last of the committed text is the last of
\* the input.
C14_ImportStatements(s) == {p \in Positions(s) : IsImportStatement(CharAt(s, p))}

\* Where the claim puts the import line in the committed text: after the
\* last import statement of the file and the line break that follows it.
C14_AfterLastImport ==
    LET e == ImportStatementEnd(C14_Committed, Max(C14_ImportStatements(C14_Committed)))
    IN  IF e < Len(C14_Committed) /\ CharAt(C14_Committed, e) = NL THEN e + 1 ELSE e

\* C14: when a new import is required, one import line is inserted: right
\* after the last import statement of the file and its line break if the
\* file has an import statement, and not after another occurrence of the
\* same text, else as the first text of the output. When none is required,
\* none is inserted.
C14_ImportPlacement ==
    ReturnedText =>
        newSource =
            IF ~needsNewImport THEN C14_Committed
            ELSE IF C14_ImportStatements(sourceText) = {}
            THEN importStatement(functionName) \o C14_Committed
            ELSE InsertAt(C14_Committed, C14_AfterLastImport, importStatement(functionName))

---------------------------------------------------------------------------
(* C16 *)

\* Two edits of the list overlap: a replacement range meets another, an
\* insertion point lies strictly inside a replacement range, or two
\* insertions share their point.
C16_Overlap(a, b) ==
    IF IsInsertion(a) /\ IsInsertion(b) THEN a.startPos = b.startPos
    ELSE IF IsInsertion(a) THEN b.startPos < a.startPos /\ a.startPos < b.endPos
    ELSE IF IsInsertion(b) THEN a.startPos < b.startPos /\ b.startPos < a.endPos
    ELSE a.startPos < b.endPos /\ b.startPos < a.endPos

\* C16: the list of edits handed to commitEdits has pairwise
\* non-overlapping ranges and is in ascending position order, also with
\* several sites on one line and with a site nested in the argument of
\* another.
C16_EditsWellFormed ==
    (pc \in {"import", "done"} /\ Len(edits) > 0) =>
        /\ \A i, j \in 1..Len(edits) : i # j => ~C16_Overlap(edits[i], edits[j])
        /\ \A i \in 1..(Len(edits) - 1) : edits[i].startPos <= edits[i + 1].startPos

---------------------------------------------------------------------------
(* C17 *)

\* The accepted sites that lie in no other accepted site.
C17_OutermostAccepted ==
    {x \in Handled :
        /\ ReplacementsOf(x) # {}
        /\ ~\E y \in Handled :
              ReplacementsOf(y) # {} /\ y.start < x.start /\ x.end <= y.end}

\* Position p of the input lies outside the range of every accepted site.
C17_Outside(p) == ~\E x \in C17_OutermostAccepted : x.start <= p /\ p < x.end

\* The input without the ranges of the accepted sites, in order.
C17_Frame ==
    LET keep == SortedSeq({p \in Positions(sourceText) : C17_Outside(p)})
    IN  [k \in 1..Len(keep) |-> CharAt(sourceText, keep[k])]

RECURSIVE C17_IsSubsequence(_, _, _, _)
\* The text a from index i on appears in order within b from index j on.
C17_IsSubsequence(a, i, b, j) ==
    IF i > Len(a) THEN TRUE
    ELSE IF j > Len(b) THEN FALSE
    ELSE IF a[i] = b[j] THEN C17_IsSubsequence(a, i + 1, b, j + 1)
    ELSE C17_IsSubsequence(a, i, b, j + 1)

RECURSIVE C17_Sum(_, _)
C17_Sum(f, S) ==
    IF S = {} THEN 0
    ELSE LET x == CHOOSE y \in S : TRUE IN f[x] + C17_Sum(f, S \ {x})

\* The length of the import line the run adds. An import line appended to
\* a text whose last line has no line break comes with that line break.
C17_ImportLength ==
    IF ~needsNewImport THEN 0
    ELSE IF /\ CharAt(C14_Committed, Len(C14_Committed) - 1) # NL
            /\ SubSeq(newSource, Len(newSource) - 1, Len(newSource)) = importStatement(functionName)
    THEN Len(importStatement(functionName)) + 1
    ELSE Len(importStatement(functionName))

\* The length of the text the run adds: the replacements of the outermost
\* accepted sites, the comment lines, and the import line if one is needed.
C17_AddedLength ==
    C17_Sum([x \in C17_OutermostAccepted |-> Len(ReplacementOf(x))], C17_OutermostAccepted)
      + Len(todoComment) * (C11_CommentLines(newSource) - C11_CommentLines(sourceText))
      + C17_ImportLength

\* C17: every accepted site has exactly one replacement edit, whose range
\* is the expression, and a rejected site has none; the text outside the
\* accepted sites stands unchanged and in order in the output, and what the
\* output holds besides is the replacements, comment lines and at most one
\* import line.
C17_FrameKept ==
    Returned =>
        /\ \A site \in Handled :
              Cardinality(ReplacementsOf(site)) = IF Accepted(site) THEN 1 ELSE 0
        /\ \A i \in 1..Len(edits) :
              IsInsertion(edits[i]) \/
                 \E site \in Handled : Accepted(site) /\ ReplacementsOf(site) = {i}
        /\ result = "text" =>
              /\ C17_IsSubsequence(C17_Frame, 1, newSource, 1)
              /\ Len(newSource) = Len(C17_Frame) + C17_AddedLength
              /\ C11_CommentLines(newSource) >= C11_CommentLines(sourceText)

\* A file with an accepted and a rejected site, a site nested in another,
\* and text around them has been rewritten.
C17_Witness ==
    /\ ReturnedText
    /\ \E site \in Handled : ~Accepted(site)
    /\ \E site \in Handled : Accepted(site) /\ site \notin C17_OutermostAccepted
    /\ Len(C17_Frame) > 2

---------------------------------------------------------------------------
(* C18 *)

\* The construct around the site binds tighter than a trailing "as": the
\* site is the object of a member or subscript access, a callee, the
\* operand of a non-null assertion, of a unary operator, of typeof or await,
\* or the right operand of "+".
C18_BindsTighter(site) ==
    \/ /\ site.end < Len(sourceText)
       /\ CharAt(sourceText, site.end) \in {Kw("."), Kw("["), Kw("("), Kw("!")}
    \/ /\ site.start > 0
       /\ CharAt(sourceText, site.start - 1) \in {Kw("typeof"), Kw("await"), Kw("!"), Kw("+")}

C18_Parenthesized(text) == text[1] = Kw("(") /\ text[Len(text)] = Kw(")")

\* C18: wherever an accepted site stands, its replacement is in parentheses
\* when the construct around it binds tighter than the trailing coercion.
C18_PrecedenceSafe ==
    Returned =>
        \A site \in Handled :
            (ReplacementsOf(site) # {} /\ C18_BindsTighter(site)) =>
                C18_Parenthesized(ReplacementOf(site))

---------------------------------------------------------------------------
(* C19 *)

\* The file has import statements and the text of the last one is not in
\* the committed text.
C19_AnchorLost ==
    /\ C14_ImportStatements(sourceText) # {}
    /\ LET p == Max(C14_ImportStatements(sourceText))
       IN  LastIndexOf(C14_Committed,
                       Substring(sourceText, p, ImportStatementEnd(sourceText, p))) = -1

\* The starts of the lines of the committed text that begin with the
\* import keyword.
C19_ImportKeywordLines ==
    {p \in Positions(C14_Committed) :
        /\ p = LineStart(C14_Committed, p)
        /\ HasImportKeywordAt(C14_Committed, p)
        /\ CharAt(C14_Committed, p).t # "cmt"}

\* The text the chain of the claim yields.
C19_Expected ==
    IF C19_ImportKeywordLines # {}
    THEN LET lineEnd == IndexOfNewline(C14_Committed, Max(C19_ImportKeywordLines))
         IN  IF lineEnd # -1
             THEN InsertAt(C14_Committed, lineEnd + 1, importStatement(functionName))
             ELSE C14_Committed \o <<NL>> \o importStatement(functionName)
    ELSE importStatement(functionName) \o C14_Committed

\* C19: when the text of the last import statement is not found in the
\* rewritten text, the import line goes after the last line that begins
\* with the import keyword, at the end of the file if that line has no line
\* break, and at the start of the file if there is no such line; one of the
\* three is applied and a text is returned.
C19_FallbackChain ==
    (ReturnedText /\ needsNewImport /\ C19_AnchorLost) => newSource = C19_Expected

---------------------------------------------------------------------------
(* C15 *)

\* The file is a manifest: a package.json that parses to an object with a
\* name or a version. A field counts when it holds a non-empty value.
C15_IsManifest ==
    /\ EndsWithPackageJson(packageJsonPath)
    /\ source.parses
    /\ source.value.k = "object"
    /\ \E key \in {"name", "version"} :
          EntriesOf(source.value, key) # {} /\ Get(source.value, key) # JString("")

\* The group of the manifest text under the key, an empty object when the
\* manifest has none.
C15_Group(manifest, key) ==
    IF EntriesOf(manifest, key) = {} THEN JObject(<<>>) ELSE Get(manifest, key)

\* The dependency is declared in one of the two groups, with any value.
C15_Declared ==
    \E key \in {"dependencies", "devDependencies"} :
        EntriesOf(C15_Group(source.value, key), PACKAGE_NAME) # {}

RECURSIVE C15_Referenced(_)
\* A .ts or .tsx file that can be read, in the directory or below it and
\* outside the directories that hold no sources, references the module.
C15_Referenced(dir) ==
    /\ dir.ok
    /\ \E i \in 1..Len(dir.entries) :
          LET entry == dir.entries[i]
          IN  \/ /\ entry.type = "file" /\ entry.ok
                 /\ entry.name \in {"a.ts", "b.tsx", "d.ts", "e.ts"}
                 /\ entry.content \in {"from dq arkregex", "from sq arkregex"}
              \/ /\ entry.type = "dir" /\ entry.name \notin SkippedDirectories
                 /\ C15_Referenced(entry)

\* Both groups of the manifest text are objects or absent, and the scan,
\* if it ran, met no directory below its depth cap.
C15_Plain ==
    /\ source.parses
    /\ source.value.k = "object"
    /\ \A key \in {"dependencies", "devDependencies"} :
          C15_Group(source.value, key).k = "object"
    /\ \A d \in (maxDepth + 1)..(MaxNesting + 1) :
          \A i \in 1..Len(packageDir.entries) : packageDir.entries[i] # Nested(d)

\* The entries of v as a set, and its keys in order.
C15_EntrySet(v) == {v.e[i] : i \in 1..Len(v.e)}
C15_Keys(v) == [i \in 1..Len(v.e) |-> v.e[i][1]]

C15_Ascending(keys) == \A i \in 1..(Len(keys) - 1) : KeyRank(keys[i]) < KeyRank(keys[i + 1])

\* The entries of a text or value outside the two groups, in order.
C15_OtherFields(v) ==
    LET keep == SortedSeq({i \in 1..Len(v.e) : v.e[i][1] \notin {"dependencies", "devDependencies"}})
    IN  [n \in 1..Len(keep) |-> v.e[keep[n]]]

\* C15: the manifest editor returns null when the file is not a manifest
\* with a name or version, when the dependency is declared in dependencies
\* or devDependencies with any value, or when no .ts/.tsx file of the
\* package references the module; otherwise it returns the manifest with
\* dependencies.arkregex set to "0.0.5", the keys of both groups ascending,
\* and every other field and entry as it was.
C15_ManifestEditor ==
    (mpc = "done" /\ C15_Plain) =>
        IF \/ ~C15_IsManifest
           \/ C15_Declared
           \/ packageDir # NotRead /\ ~C15_Referenced(packageDir)
        THEN output = "null"
        ELSE /\ output = "text"
             /\ Get(Get(packageJson, "dependencies"), PACKAGE_NAME) = JString(PACKAGE_VERSION)
             /\ \A key \in {"dependencies", "devDependencies"} :
                   /\ C15_Ascending(C15_Keys(C15_Group(packageJson, key)))
                   /\ C15_EntrySet(C15_Group(packageJson, key))
                        \ {<<PACKAGE_NAME, JString(PACKAGE_VERSION)>>}
                      = C15_EntrySet(C15_Group(source.value, key))
             /\ C15_OtherFields(packageJson) = C15_OtherFields(source.value)

---------------------------------------------------------------------------
(* C20 *)

RECURSIVE C20_Evidence(_, _)
\* A file that can be read and references the module, reached through
\* directories that can be read, at a depth within the cap.
C20_Evidence(dir, depth) ==
    /\ depth <= maxDepth
    /\ dir.ok
    /\ \E i \in 1..Len(dir.entries) :
          LET entry == dir.entries[i]
          IN  \/ entry.type = "file" /\ entry.ok /\ IncludesFrom(entry.content)
              \/ entry.type = "dir" /\ C20_Evidence(entry, depth + 1)

\* C20: for every manifest text, JSON or not, of any shape, and every state
\* of the file system, the manifest editor ends with null or with a
\* rewritten manifest and never with an error; what cannot be read is no
\* evidence of an import, and the scan finds nothing below its depth cap.
C20_NeverThrows ==
    mpc = "done" =>
        /\ output \in {"null", "text"}
        /\ hasImport => C20_Evidence(packageDir, 0)

---------------------------------------------------------------------------
(* C21 *)

\* The directories of the upward walk from the target that carry a marker.
C21_MarkedAncestors == AncestorsOrSelf(target_dir) \cap markers

\* What the claim has find_monorepo_root return: the nearest directory of
\* the walk that carries a marker, the target directory when none does.
C21_ExpectedRoot ==
    IF C21_MarkedAncestors = {} THEN target_dir
    ELSE CHOOSE d \in C21_MarkedAncestors :
            \A o \in C21_MarkedAncestors : Len(o.parts) <= Len(d.parts)

C21_ResultAsClaimed == ipc \in {"decide", "decided"} => monorepo_root = C21_ExpectedRoot

\* main has reached the install decision.
C21_Decided == ipc = "decided"

\* C21: for every target directory argument, the default "." and other
\* relative paths included, the upward walk of find_monorepo_root ends
\* after finitely many steps, with the nearest directory that carries a
\* workspace marker or with the target directory when none does, and main
\* reaches the install decision.
C21_RootSearchTerminates == <>C21_Decided /\ []C21_ResultAsClaimed

\* The part of C21 about termination alone.
C21_Terminates == <>C21_Decided

====
